---------------------------- MODULE Spec2Model ----------------------------
(***************************************************************************)
(* tiny-parquet: the PLAIN value codec (parquet-writer encode_* and        *)
(* parquet-reader decode_plain), the type mapper (ColType / type_label)    *)
(* and the row-limited page loop of read_parquet.                          *)
(*                                                                         *)
(* Numbers wider than TLC's integers are kept as 16-bit limbs, most        *)
(* significant first, so that byte layouts and the 32-bit offset           *)
(* arithmetic of the wasm32 target are computed exactly.                   *)
(***************************************************************************)
EXTENDS Integers, Sequences, FiniteSets, TLC

VARIABLES
    ctype,      \* codec: the column type of `values`, or "Raw" for a buffer not made by the encoder
    cphys,      \* codec: the physical type handed to decode_plain
    values,     \* codec: the value sequence given to the encoder
    page,       \* codec: the page under decode (declared count and buffer)
    origin,     \* codec: "encoded" (whole encoder output), "cut" (a prefix of it) or "raw"
    res,        \* codec: quota and build used by the last decode_plain call, and its result
    cphase      \* codec: "input", "ready" (a page to decode) or "decoded"

codecVars == <<ctype, cphys, values, page, origin, res, cphase>>

VARIABLES
    schema_js,      \* writer: the schema array handed to write_parquet
    col_names,      \* writer: names of the columns processed so far
    col_types,      \* writer: their ColType
    parquet_fields, \* writer: their PrimitiveType
    file            \* the footer metadata of the file: column descriptors and row-group count

writeVars == <<schema_js, col_names, col_types, parquet_fields>>

VARIABLES
    pc,             \* reader: position in read_parquet
    limit,          \* reader: max_rows.unwrap_or(500)
    col_descriptors,\* reader: metadata.schema_descr.columns()
    schema_arr,     \* reader: the schema array of the result
    data_obj,       \* reader: the data object, an insertion-ordered list of key / value
    rg,             \* reader: index of the row group being read
    ci,             \* reader: index of the column chunk being read
    arr,            \* reader: the array of the column chunk being read
    total,          \* reader: values decoded so far in this column chunk
    err,            \* reader: the stage named by the error returned, or the panic
    result,         \* reader: the object returned
    fetched,        \* history: items taken from the page iterator of this chunk
    touched,        \* history: positions (in `fetched` order) of the pages decompressed
    calls,          \* history: the decode_plain calls of this chunk (declared, quota, count)
    stop,           \* history: how the page loop of this chunk ended
    expected,       \* history: per column, the first `limit` decodable values seen in the file
    budget          \* pages the file still holds (bounds the file's size)

readVars == <<pc, limit, col_descriptors, schema_arr, data_obj, rg, ci, arr, total, err,
              result, fetched, touched, calls, stop, expected, budget>>

vars == <<codecVars, writeVars, file, readVars>>

(***************************************************************************)
(* Bounds of the model.                                                    *)
(***************************************************************************)
MaxLen == 2          \* values per encoded sequence (codec specification)
MaxBools == 9        \* booleans per encoded sequence: more than one byte
MaxRawLen == 5       \* bytes of an arbitrary (possibly corrupt) buffer
MaxRawVals == 2      \* declared value count / quota tried on a raw buffer
MaxSchema == 2       \* columns of a schema given to the writer
MaxCols == 1         \* columns of a file given to the reader
MaxRowGroups == 2    \* row groups of a file given to the reader
MaxPages == 3        \* pages of a file given to the reader
MaxPageVals == 2     \* values of one page of such a file
MaxRows == 2         \* largest explicit max_rows

\* max_rows.unwrap_or(500)
DefaultRows == 500

(***************************************************************************)
(* Generic helpers.                                                        *)
(***************************************************************************)
Min(a, b) == IF a <= b THEN a ELSE b

Take(s, k) == SubSeq(s, 1, Min(k, Len(s)))

RECURSIVE SeqsUpTo(_, _)
SeqsUpTo(S, k) ==
    IF k = 0 THEN {<<>>}
    ELSE LET shorter == SeqsUpTo(S, k - 1)
         IN  shorter \cup {Append(s, x) : s \in {t \in shorter : Len(t) = k - 1}, x \in S}

RECURSIVE Pow2(_)
Pow2(k) == IF k = 0 THEN 1 ELSE 2 * Pow2(k - 1)

\* number of significant bits of a non-negative integer
RECURSIVE BitLen(_)
BitLen(x) == IF x = 0 THEN 0 ELSE 1 + BitLen(x \div 2)

(***************************************************************************)
(* Physical types of the file format and the writer's column types.        *)
(***************************************************************************)
PhysicalType == {"Boolean", "Int32", "Int64", "Int96", "Float", "Double",
                 "ByteArray", "FixedLenByteArray"}

ColType == {"Str", "Int32", "Int64", "Float32", "Float64", "Boolean", "TimestampMillis"}

(***************************************************************************)
(* i32: a TLC integer in -2^31 .. 2^31-1.                                  *)
(***************************************************************************)
I32ToLeBE(v) ==
    LET w == IF v < 0 THEN (v + 2147483647) + 1 ELSE v
        top == (w \div 16777216) + (IF v < 0 THEN 128 ELSE 0)
    IN  <<top, (w \div 65536) % 256, (w \div 256) % 256, w % 256>>

\* i32::to_le_bytes
I32ToLe(v) ==
    LET w == IF v < 0 THEN (v + 2147483647) + 1 ELSE v
        top == (w \div 16777216) + (IF v < 0 THEN 128 ELSE 0)
    IN  <<w % 256, (w \div 256) % 256, (w \div 65536) % 256, top>>

\* i32::from_le_bytes followed by `as f64` (exact for every i32)
I32FromLe(b) ==
    LET low == b[1] + 256 * b[2] + 65536 * b[3]
    IN  IF b[4] >= 128
        THEN (((b[4] - 128) * 16777216 + low) - 2147483647) - 1
        ELSE b[4] * 16777216 + low

(***************************************************************************)
(* i64: four 16-bit limbs <<w3, w2, w1, w0>> in two's complement.          *)
(***************************************************************************)
I64ToLe(w) ==
    <<w[4] % 256, w[4] \div 256, w[3] % 256, w[3] \div 256,
      w[2] % 256, w[2] \div 256, w[1] % 256, w[1] \div 256>>

I64FromLe(b) ==
    <<b[7] + 256 * b[8], b[5] + 256 * b[6], b[3] + 256 * b[4], b[1] + 256 * b[2]>>

\* limbs + 1, carried upwards (the top limb may reach 65536 only from all-ones)
LimbsInc(m) ==
    LET l0 == m[4] + 1
        c0 == l0 \div 65536
        l1 == m[3] + c0
        c1 == l1 \div 65536
        l2 == m[2] + c1
        c2 == l2 \div 65536
        l3 == m[1] + c2
    IN  <<l3, l2 % 65536, l1 % 65536, l0 % 65536>>

\* the mathematical value of an i64 as sign and magnitude
I64Exact(w) ==
    IF w[1] >= 32768
    THEN [neg |-> TRUE,
          mag |-> LimbsInc(<<65535 - w[1], 65535 - w[2], 65535 - w[3], 65535 - w[4]>>)]
    ELSE [neg |-> FALSE, mag |-> w]

\* round a 64-bit magnitude to 53 significant bits, ties to even
RoundTo53(m) ==
    LET k == BitLen(m[1]) - 5          \* bits to drop; magnitude >= 2^53 iff k >= 1
    IN  IF k <= 0 THEN m
        ELSE LET unit == Pow2(k)
                 q    == m[4] \div unit
                 r    == m[4] % unit
                 half == unit \div 2
                 up   == (r > half) \/ (r = half /\ q % 2 = 1)
                 l0   == (q + (IF up THEN 1 ELSE 0)) * unit
                 c0   == l0 \div 65536
                 l1   == m[3] + c0
                 c1   == l1 \div 65536
                 l2   == m[2] + c1
                 c2   == l2 \div 65536
             IN  <<m[1] + c2, l2 % 65536, l1 % 65536, l0 % 65536>>

\* `v as f64` for an i64: the nearest double, as sign and magnitude
I64AsF64(w) ==
    LET e == I64Exact(w)
    IN  [neg |-> e.neg, mag |-> RoundTo53(e.mag)]

(***************************************************************************)
(* f32: [s, e, m] sign bit, 8-bit exponent, 23-bit fraction.               *)
(* f64: [s, e, mh, mm, ml] sign bit, 11-bit exponent, fraction split into  *)
(* 20 + 16 + 16 bits.  A JS number is an f64 with one NaN.                 *)
(***************************************************************************)
F32ToLe(f) ==
    <<f.m % 256, (f.m \div 256) % 256, (f.m \div 65536) + (f.e % 2) * 128,
      (f.e \div 2) + f.s * 128>>

F32FromLe(b) ==
    [s |-> b[4] \div 128,
     e |-> (b[4] % 128) * 2 + (b[3] \div 128),
     m |-> (b[3] % 128) * 65536 + b[2] * 256 + b[1]]

F64ToLe(f) ==
    <<f.ml % 256, f.ml \div 256, f.mm % 256, f.mm \div 256,
      f.mh % 256, (f.mh \div 256) % 256, (f.mh \div 65536) + (f.e % 16) * 16,
      (f.e \div 16) + f.s * 128>>

F64FromLe(b) ==
    [s  |-> b[8] \div 128,
     e  |-> (b[8] % 128) * 16 + (b[7] \div 16),
     mh |-> (b[7] % 16) * 65536 + b[6] * 256 + b[5],
     mm |-> b[4] * 256 + b[3],
     ml |-> b[2] * 256 + b[1]]

JsNaN == "NaN"

\* JsValue::from_f64: the payload of a NaN is not observable in JS
JsFromF64(f) ==
    IF f.e = 2047 /\ (f.mh # 0 \/ f.mm # 0 \/ f.ml # 0) THEN JsNaN ELSE f

\* `v as f64` for an f32: exact widening
F32AsF64(f) ==
    IF f.e = 255
    THEN [s |-> f.s, e |-> 2047, mh |-> f.m \div 8, mm |-> (f.m % 8) * 8192, ml |-> 0]
    ELSE IF f.e = 0
    THEN IF f.m = 0
         THEN [s |-> f.s, e |-> 0, mh |-> 0, mm |-> 0, ml |-> 0]
         ELSE \* subnormal f32: m * 2^-149, normal as a double
              LET k    == BitLen(f.m) - 1
                  frac == f.m - Pow2(k)          \* k fraction bits
              IN  IF k <= 20
                  THEN [s |-> f.s, e |-> k + 874, mh |-> frac * Pow2(20 - k),
                        mm |-> 0, ml |-> 0]
                  ELSE [s |-> f.s, e |-> k + 874, mh |-> frac \div Pow2(k - 20),
                        mm |-> (frac % Pow2(k - 20)) * Pow2(36 - k), ml |-> 0]
    ELSE [s |-> f.s, e |-> f.e + 896, mh |-> f.m \div 8, mm |-> (f.m % 8) * 8192, ml |-> 0]

(***************************************************************************)
(* Text: a string is the sequence of its UTF-8 bytes.                      *)
(***************************************************************************)
IsCont(b, i) == i <= Len(b) /\ b[i] >= 128 /\ b[i] <= 191

IsIn(b, i, lo, hi) == i <= Len(b) /\ b[i] >= lo /\ b[i] <= hi

\* std::str::from_utf8(..).is_ok(): well-formed UTF-8 from position i on
RECURSIVE ValidUtf8From(_, _)
ValidUtf8From(b, i) ==
    IF i > Len(b) THEN TRUE
    ELSE LET c == b[i]
         IN  IF c < 128 THEN ValidUtf8From(b, i + 1)
             ELSE IF c >= 194 /\ c <= 223
                  THEN IsCont(b, i + 1) /\ ValidUtf8From(b, i + 2)
             ELSE IF c = 224
                  THEN IsIn(b, i + 1, 160, 191) /\ IsCont(b, i + 2) /\ ValidUtf8From(b, i + 3)
             ELSE IF (c >= 225 /\ c <= 236) \/ c = 238 \/ c = 239
                  THEN IsCont(b, i + 1) /\ IsCont(b, i + 2) /\ ValidUtf8From(b, i + 3)
             ELSE IF c = 237
                  THEN IsIn(b, i + 1, 128, 159) /\ IsCont(b, i + 2) /\ ValidUtf8From(b, i + 3)
             ELSE IF c = 240
                  THEN IsIn(b, i + 1, 144, 191) /\ IsCont(b, i + 2) /\ IsCont(b, i + 3)
                       /\ ValidUtf8From(b, i + 4)
             ELSE IF c >= 241 /\ c <= 243
                  THEN IsCont(b, i + 1) /\ IsCont(b, i + 2) /\ IsCont(b, i + 3)
                       /\ ValidUtf8From(b, i + 4)
             ELSE IF c = 244
                  THEN IsIn(b, i + 1, 128, 143) /\ IsCont(b, i + 2) /\ IsCont(b, i + 3)
                       /\ ValidUtf8From(b, i + 4)
             ELSE FALSE

ValidUtf8(b) == ValidUtf8From(b, 1)

\* the bytes of "<binary>"
BinarySentinel == <<60, 98, 105, 110, 97, 114, 121, 62>>

Utf8OrFail(b) == IF ValidUtf8(b) THEN b ELSE <<>>

\* std::str::from_utf8(bytes).unwrap_or("<binary>")
Utf8OrBinary(b) == IF ValidUtf8(b) THEN b ELSE BinarySentinel

(***************************************************************************)
(* Plain encoder (parquet-writer).  A page is its header's value count and *)
(* its buffer.                                                             *)
(***************************************************************************)
\* plain_header(n) and DataPage::new
DataPage(n, b) == [kind |-> "data", num_values |-> n, buffer |-> b]

RECURSIVE ConcatBytes(_, _, _)
ConcatBytes(vals, ty, i) ==
    IF i > Len(vals) THEN <<>>
    ELSE (CASE ty = "i32" -> I32ToLe(vals[i])
            [] ty = "i64" -> I64ToLe(vals[i])
            [] ty = "f32" -> F32ToLe(vals[i])
            [] ty = "f64" -> F64ToLe(vals[i]))
         \o ConcatBytes(vals, ty, i + 1)

encode_i32(vals) == DataPage(Len(vals), ConcatBytes(vals, "i32", 1))

encode_i64(vals) == DataPage(Len(vals), ConcatBytes(vals, "i64", 1))

encode_f32(vals) == DataPage(Len(vals), ConcatBytes(vals, "f32", 1))

encode_f64(vals) == DataPage(Len(vals), ConcatBytes(vals, "f64", 1))

\* b |= mask, for a mask of one bit
BitOr(b, mask) == IF (b \div mask) % 2 = 1 THEN b ELSE b + mask

\* the position of value i inside its byte: LSB first
BitIndex(i) == i % 8

\* for (i, &v) in vals.iter().enumerate() { if v { b[i / 8] |= 1 << (i % 8); } }
RECURSIVE PackBits(_, _, _)
PackBits(vals, i, b) ==
    IF i >= Len(vals) THEN b
    ELSE PackBits(vals, i + 1,
                  IF vals[i + 1]
                  THEN [b EXCEPT ![(i \div 8) + 1] = BitOr(@, Pow2(BitIndex(i)))]
                  ELSE b)

encode_bool(vals) ==
    DataPage(Len(vals), PackBits(vals, 0, [j \in 1 .. ((Len(vals) + 7) \div 8) |-> 0]))

\* (v.len() as u32).to_le_bytes()
U32ToLe(n) == <<n % 256, (n \div 256) % 256, (n \div 65536) % 256, n \div 16777216>>

RECURSIVE ConcatBinary(_, _)
ConcatBinary(vals, i) ==
    IF i > Len(vals) THEN <<>>
    ELSE U32ToLe(Len(vals[i])) \o vals[i] \o ConcatBinary(vals, i + 1)

encode_binary(vals) == DataPage(Len(vals), ConcatBinary(vals, 1))

(***************************************************************************)
(* Plain decoder (parquet-reader).  The result of a call is the array      *)
(* after the pushes, the returned count, `panic` (the call trapped instead *)
(* of returning, with the reason) and `hi`, the number of leading bytes of *)
(* the buffer the call has looked at.                                      *)
(***************************************************************************)
Max(a, b) == IF a >= b THEN a ELSE b

NoPanic == "none"

FixedWidth(phys) ==
    CASE phys = "Int32" -> 4 [] phys = "Int64" -> 8
      [] phys = "Float" -> 4 [] phys = "Double" -> 8

\* X::from_le_bytes(..) and the conversion handed to JsValue::from_f64
FixedValue(phys, b) ==
    CASE phys = "Int32"  -> I32FromLe(b)
      [] phys = "Int64"  -> I64AsF64(I64FromLe(b))
      [] phys = "Float"  -> JsFromF64(F32AsF64(F32FromLe(b)))
      [] phys = "Double" -> JsFromF64(F64FromLe(b))

RecordMissingLoose(off, width, buflen) == off + width > buflen + 1

\* if off + width > buf.len() { return i; }
RecordMissing(off, width, buflen) == off + width > buflen

\* buf[a..b]: panics unless a <= b <= buf.len()
SliceOk(buf, a, b) == a <= b /\ b <= Len(buf)

RECURSIVE DecodeFixed(_, _, _, _, _, _)
DecodeFixed(buf, phys, n, i, a, hi) ==
    IF i >= n THEN [arr |-> a, count |-> n, panic |-> NoPanic, hi |-> hi]
    ELSE LET w   == FixedWidth(phys)
             off == i * w
         IN  IF RecordMissing(off, w, Len(buf))
             THEN [arr |-> a, count |-> i, panic |-> NoPanic, hi |-> hi]
             ELSE IF ~SliceOk(buf, off, off + w)
             THEN [arr |-> a, count |-> i, panic |-> "slice", hi |-> off + w]
             ELSE DecodeFixed(buf, phys, n, i + 1,
                              Append(a, FixedValue(phys, SubSeq(buf, off + 1, off + w))),
                              off + w)

RECURSIVE DecodeBool(_, _, _, _, _)
DecodeBool(buf, n, i, a, hi) ==
    IF i >= n THEN [arr |-> a, count |-> n, panic |-> NoPanic, hi |-> hi]
    ELSE LET byte_idx == i \div 8
             bit_idx  == i % 8
         IN  IF byte_idx >= Len(buf)
             THEN [arr |-> a, count |-> i, panic |-> NoPanic, hi |-> hi]
             ELSE DecodeBool(buf, n, i + 1,
                             Append(a, (buf[byte_idx + 1] \div Pow2(bit_idx)) % 2 = 1),
                             Max(hi, byte_idx + 1))

\* u32::from_le_bytes(..) as usize, as two 16-bit limbs <<high, low>>
U32FromLe(b) == <<b[3] + 256 * b[4], b[1] + 256 * b[2]>>

\* off + len in a 32-bit usize: the limbs of the sum and whether it left 32 bits
UsizeAdd(off, len) ==
    LET lo == len[2] + off
        h  == len[1] + (lo \div 65536)
    IN  [overflow |-> h >= 65536, sum |-> <<h % 65536, lo % 65536>>]

\* end > buf.len(), the buffer being far shorter than 2^16
UsizeGt(end, buflen) == end[1] > 0 \/ end[2] > buflen

\* off + 4 <= buf.len()
HasPrefix(off, buflen) == off + 4 <= buflen

\* `checks`: the build traps on integer overflow (debug) instead of wrapping (release)
RECURSIVE DecodeByteArray(_, _, _, _, _, _, _)
DecodeByteArray(buf, n, off, count, a, hi, checks) ==
    IF ~(count < n /\ HasPrefix(off, Len(buf)))
    THEN [arr |-> a, count |-> count, panic |-> NoPanic, hi |-> hi]
    ELSE IF ~SliceOk(buf, off, off + 4)
    THEN [arr |-> a, count |-> count, panic |-> "slice", hi |-> off + 4]
    ELSE LET len  == U32FromLe(SubSeq(buf, off + 1, off + 4))
             off1 == off + 4
             add  == UsizeAdd(off1, len)
         IN  IF add.overflow /\ checks
             THEN [arr |-> a, count |-> count, panic |-> "overflow", hi |-> off1]
             ELSE IF UsizeGt(add.sum, Len(buf))
             THEN [arr |-> a, count |-> count, panic |-> NoPanic, hi |-> off1]
             ELSE IF ~SliceOk(buf, off1, add.sum[2])
             THEN [arr |-> a, count |-> count, panic |-> "slice", hi |-> off1]
             ELSE DecodeByteArray(buf, n, add.sum[2], count + 1,
                                  Append(a, Utf8OrBinary(SubSeq(buf, off1 + 1, add.sum[2]))),
                                  add.sum[2], checks)

QuotaIgnored(num_vals, lim) == num_vals

QuotaOffByOne(num_vals, lim) == IF num_vals <= lim + 1 THEN num_vals ELSE lim + 1

\* let n = num_vals.min(lim);
Quota(num_vals, lim) == Min(num_vals, lim)

decode_plain(buf, phys, num_vals, a, lim, checks) ==
    LET n == Quota(num_vals, lim)
    IN  CASE phys \in {"Int32", "Int64", "Float", "Double"} ->
                 DecodeFixed(buf, phys, n, 0, a, 0)
          [] phys = "Boolean" -> DecodeBool(buf, n, 0, a, 0)
          [] phys = "ByteArray" -> DecodeByteArray(buf, n, 0, 0, a, 0, checks)
          [] OTHER -> [arr |-> a, count |-> 0, panic |-> NoPanic, hi |-> 0]

(***************************************************************************)
(* Type mapper: ColType (writer) and type_label (reader).                  *)
(***************************************************************************)
\* Option::None of a converted type, and of a logical type
NoneT == "None"

NoLogical == [kind |-> "None"]

TimestampMillisUtc == [kind |-> "Timestamp", unit |-> "Milliseconds", is_adjusted_to_utc |-> TRUE]

from_str_strict(s) ==
    CASE s = "int32" -> "Int32"
      [] s = "int64" -> "Int64"
      [] s = "float32" -> "Float32"
      [] s = "float64" -> "Float64"
      [] s = "boolean" -> "Boolean"
      [] s = "timestamp" -> "TimestampMillis"
      [] OTHER -> "Str"

\* ColType::from_str
from_str(s) ==
    CASE s = "int32" -> "Int32"
      [] s = "int64" -> "Int64"
      [] s \in {"float32", "float"} -> "Float32"
      [] s \in {"float64", "double"} -> "Float64"
      [] s \in {"boolean", "bool"} -> "Boolean"
      [] s \in {"timestamp", "timestamp_millis"} -> "TimestampMillis"
      [] OTHER -> "Str"

physical_type(ct) ==
    CASE ct = "Str" -> "ByteArray"
      [] ct = "Int32" -> "Int32"
      [] ct \in {"Int64", "TimestampMillis"} -> "Int64"
      [] ct = "Float32" -> "Float"
      [] ct = "Float64" -> "Double"
      [] ct = "Boolean" -> "Boolean"

converted_type(ct) ==
    CASE ct = "Str" -> "Utf8"
      [] ct = "TimestampMillis" -> "TimestampMillis"
      [] OTHER -> NoneT

logical_type(ct) ==
    CASE ct = "TimestampMillis" -> TimestampMillisUtc
      [] OTHER -> NoLogical

IsTimestamp(logical) == logical.kind = "Timestamp"

type_label(phys, logical) ==
    CASE phys = "Int64" /\ IsTimestamp(logical) -> "timestamp"
      [] phys = "Int32" -> "int32"
      [] phys = "Int64" /\ ~IsTimestamp(logical) -> "int64"
      [] phys = "Float" -> "float32"
      [] phys = "Double" -> "float64"
      [] phys = "Boolean" -> "boolean"
      [] phys = "ByteArray" -> "string"
      [] OTHER -> "binary"

(***************************************************************************)
(* write_parquet: the schema loop, which turns the host's schema array     *)
(* into the file's column descriptors.                                     *)
(***************************************************************************)
Undefined == [some |-> FALSE]

Some(v) == [some |-> TRUE, v |-> v]

TypeStrings == {"int32", "int64", "float32", "float", "float64", "double", "boolean",
                "bool", "timestamp", "timestamp_millis", "string", "binary", "Int32", ""}

ColumnNames == <<"a", "b", "c", "d">>

\* schema arrays of up to MaxSchema columns; the i-th column is named ColumnNames[i]
SchemaInputs ==
    {[i \in 1 .. Len(ts) |-> [name |-> ColumnNames[i], type |-> ts[i]]] :
        ts \in SeqsUpTo({Some(t) : t \in TypeStrings} \cup {Undefined}, MaxSchema)}

\* Reflect::get(&col, "type").ok().and_then(|v| v.as_string()).unwrap_or("string")
TypeString(col) == IF col.type.some THEN col.type.v ELSE "string"

\* one iteration of `for i in 0..num_cols`
WriteSchemaColumn ==
    /\ pc = "write"
    /\ Len(col_names) < Len(schema_js)
    /\ LET col == schema_js[Len(col_names) + 1]
           ct  == from_str(TypeString(col))
       IN  /\ parquet_fields' = Append(parquet_fields,
                                       [name |-> col.name,
                                        physical_type |-> physical_type(ct),
                                        logical_type |-> logical_type(ct),
                                        converted_type |-> converted_type(ct)])
           /\ col_names' = Append(col_names, col.name)
           /\ col_types' = Append(col_types, ct)
    /\ UNCHANGED <<schema_js, file, codecVars, readVars>>

\* SchemaDescriptor::new and FileWriter::write / end: one row group, one chunk per
\* column; the container library stores each field's physical, logical and
\* converted type in the footer and read_metadata hands them back
WriteFile ==
    /\ pc = "write"
    /\ Len(col_names) = Len(schema_js)
    /\ file' = [schema |-> parquet_fields, row_groups |-> 1]
    /\ pc' = "start"
    /\ UNCHANGED <<writeVars, codecVars, limit, col_descriptors, schema_arr, data_obj, rg,
                   ci, arr, total, err, result, fetched, touched, calls, stop, expected,
                   budget>>

(***************************************************************************)
(* read_parquet.                                                           *)
(***************************************************************************)
\* Reflect::set on an object: a new key is added last, an old key keeps its place
ObjSet(obj, k, v) ==
    IF \E i \in 1 .. Len(obj) : obj[i].key = k
    THEN [i \in 1 .. Len(obj) |-> IF obj[i].key = k THEN [key |-> k, val |-> v] ELSE obj[i]]
    ELSE Append(obj, [key |-> k, val |-> v])

ObjKeys(obj) == [i \in 1 .. Len(obj) |-> obj[i].key]

ObjHas(obj, k) == \E i \in 1 .. Len(obj) : obj[i].key = k

ObjGet(obj, k) == obj[CHOOSE i \in 1 .. Len(obj) : obj[i].key = k].val

\* let limit = max_rows.unwrap_or(500) as usize;
LimitOf(max_rows) == IF max_rows.some THEN max_rows.v ELSE DefaultRows

BreakAfterLimit(t, lim) == t > lim

\* if total >= limit { break; }
ShouldBreak(t, lim) == t >= lim

\* read_metadata(..)?
ReadMetadata ==
    /\ pc = "start"
    /\ \/ /\ pc' = "schema"
          /\ col_descriptors' = file.schema
          /\ err' = err
       \/ /\ pc' = "error"
          /\ err' = "metadata"
          /\ UNCHANGED col_descriptors
    /\ UNCHANGED <<codecVars, writeVars, file, limit, schema_arr, data_obj, rg, ci, arr,
                   total, result, fetched, touched, calls, stop, expected, budget>>

\* one iteration of `for desc in col_descriptors`
BuildSchema ==
    /\ pc = "schema"
    /\ Len(schema_arr) < Len(col_descriptors)
    /\ LET desc == col_descriptors[Len(schema_arr) + 1]
       IN  schema_arr' = Append(schema_arr,
                                [name |-> desc.name,
                                 type |-> type_label(desc.physical_type, desc.logical_type)])
    /\ UNCHANGED <<codecVars, writeVars, file, pc, limit, col_descriptors, data_obj, rg, ci,
                   arr, total, err, result, fetched, touched, calls, stop, expected, budget>>

\* where the loops `for rg in row_groups { for col_chunk in rg.columns() ..` stand next,
\* from row group r, column c on: a chunk to read, or the end of the loops
NextPlace(r, c) ==
    IF Len(col_descriptors) = 0 \/ r > file.row_groups
    THEN [pc |-> "result", rg |-> r, ci |-> c]
    ELSE IF c > Len(col_descriptors)
    THEN IF r + 1 > file.row_groups
         THEN [pc |-> "result", rg |-> r + 1, ci |-> 1]
         ELSE [pc |-> "chunk", rg |-> r + 1, ci |-> 1]
    ELSE [pc |-> "chunk", rg |-> r, ci |-> c]

\* let data_obj = Object::new(); and the entry into the row-group loop
StartData ==
    /\ pc = "schema"
    /\ Len(schema_arr) = Len(col_descriptors)
    /\ data_obj' = <<>>
    /\ LET nxt == NextPlace(1, 1)
       IN  pc' = nxt.pc /\ rg' = nxt.rg /\ ci' = nxt.ci
    /\ expected' = [i \in 1 .. Len(col_descriptors) |-> <<>>]
    /\ UNCHANGED <<codecVars, writeVars, file, limit, col_descriptors, schema_arr, arr,
                   total, err, result, fetched, touched, calls, stop, budget>>

\* get_page_iterator(..)?; let arr = Array::new(); let mut total = 0usize;
OpenChunk ==
    /\ pc = "chunk"
    /\ \/ /\ pc' = "pages"
          /\ arr' = <<>>
          /\ total' = 0
          /\ err' = err
       \/ /\ pc' = "error"
          /\ err' = "pages"
          /\ UNCHANGED <<arr, total>>
    /\ fetched' = 0
    /\ touched' = {}
    /\ calls' = <<>>
    /\ stop' = "running"
    /\ UNCHANGED <<codecVars, writeVars, file, limit, col_descriptors, schema_arr, data_obj,
                   rg, ci, result, expected, budget>>

(***************************************************************************)
(* The pages a column chunk of the file may hold.  The page iterator and   *)
(* decompress belong to the container library; what they hand over is an   *)
(* input, taken page by page.                                              *)
(***************************************************************************)
\* the physical types of the columns of the files read: a fixed-width type, the
\* length-prefixed type and a type decode_plain does not support
ReadTypes == {"Int32", "ByteArray", "Int96"}

\* the values a page of the column holds are the first k of these, k <= MaxPageVals
ReadStream(phys) ==
    CASE phys = "Int32" -> <<258, -1, 0, (-2147483647) - 1>>
      [] phys = "ByteArray" -> <<<<97>>, <<255>>, <<>>, <<195, 169>>>>
      [] OTHER -> <<>>

ReadPagesOf(phys) ==
    CASE phys = "Int32" -> {encode_i32(Take(ReadStream(phys), k)) : k \in 0 .. MaxPageVals}
      [] phys = "ByteArray" ->
            {encode_binary(Take(ReadStream(phys), k)) : k \in 0 .. MaxPageVals}
      [] OTHER -> {DataPage(1, <<1, 2, 3>>)}

\* a page that lost its last byte, and a ByteArray page with a corrupt length prefix
DamagedPagesOf(phys) ==
    {[pg EXCEPT !.buffer = SubSeq(pg.buffer, 1, Len(pg.buffer) - 1)] :
        pg \in {q \in ReadPagesOf(phys) : q.num_values = MaxPageVals}}
    \cup (IF phys = "ByteArray"
          THEN {DataPage(2, <<1, 0, 0, 0, 97, 255, 255, 255, 255>>)}
          ELSE {})

PagePool(phys) == ReadPagesOf(phys) \cup DamagedPagesOf(phys)

\* limit - total in usize: a debug build traps below zero, a release build wraps
\* to a quota beyond every count of the model
RemainingQuota(lim, t, checks) ==
    IF t <= lim THEN [panic |-> NoPanic, q |-> lim - t]
    ELSE IF checks THEN [panic |-> "overflow", q |-> 0]
    ELSE [panic |-> NoPanic, q |-> 2147483647]

\* the builds to tell apart for one call: a call in which no addition or
\* subtraction leaves usize runs the same with and without overflow checks
BuildsOf(pg, phys, a, lim, t) ==
    LET quota == RemainingQuota(lim, t, TRUE)
    IN  IF quota.panic # NoPanic
           \/ decode_plain(pg.buffer, phys, pg.num_values, a, quota.q, TRUE).panic = "overflow"
        THEN BOOLEAN
        ELSE {TRUE}

\* the iterator is at its end: the `for maybe in pages` loop is left
EndOfPages ==
    /\ pc = "pages"
    /\ pc' = "store"
    /\ stop' = "exhausted"
    /\ UNCHANGED <<codecVars, writeVars, file, limit, col_descriptors, schema_arr, data_obj,
                   rg, ci, arr, total, err, result, fetched, touched, calls, expected,
                   budget>>

\* an item is taken from the iterator and `if total >= limit { break; }` leaves the loop
BreakOnLimit ==
    /\ pc = "pages"
    /\ budget > 0
    /\ ShouldBreak(total, limit)
    /\ fetched' = fetched + 1
    /\ budget' = budget - 1
    /\ pc' = "store"
    /\ stop' = "break"
    /\ UNCHANGED <<codecVars, writeVars, file, limit, col_descriptors, schema_arr, data_obj,
                   rg, ci, arr, total, err, result, touched, calls, expected>>

\* the item is an error of the iterator: maybe.map_err(..)?
PageError ==
    /\ pc = "pages"
    /\ budget > 0
    /\ ~ShouldBreak(total, limit)
    /\ fetched' = fetched + 1
    /\ budget' = budget - 1
    /\ pc' = "error"
    /\ err' = "page"
    /\ UNCHANGED <<codecVars, writeVars, file, limit, col_descriptors, schema_arr, data_obj,
                   rg, ci, arr, total, result, touched, calls, stop, expected>>

\* decompress(cp, ..) fails
DecompError ==
    /\ pc = "pages"
    /\ budget > 0
    /\ ~ShouldBreak(total, limit)
    /\ fetched' = fetched + 1
    /\ budget' = budget - 1
    /\ touched' = touched \cup {[pos |-> fetched + 1, before |-> total]}
    /\ pc' = "error"
    /\ err' = "decomp"
    /\ UNCHANGED <<codecVars, writeVars, file, limit, col_descriptors, schema_arr, data_obj,
                   rg, ci, arr, total, result, calls, stop, expected>>

\* the page is decompressed and is no Page::Data: nothing is decoded
DictPage ==
    /\ pc = "pages"
    /\ budget > 0
    /\ ~ShouldBreak(total, limit)
    /\ fetched' = fetched + 1
    /\ budget' = budget - 1
    /\ touched' = touched \cup {[pos |-> fetched + 1, before |-> total]}
    /\ UNCHANGED <<codecVars, writeVars, file, pc, limit, col_descriptors, schema_arr,
                   data_obj, rg, ci, arr, total, err, result, calls, stop, expected>>

\* total += decode_plain(dp.buffer(), phys, dp.num_values(), &arr, limit - total);
DataPageStep ==
    /\ pc = "pages"
    /\ budget > 0
    /\ ~ShouldBreak(total, limit)
    /\ \E pg \in PagePool(col_descriptors[ci].physical_type) :
       \E checks \in BuildsOf(pg, col_descriptors[ci].physical_type, arr, limit, total) :
          LET phys  == col_descriptors[ci].physical_type
              quota == RemainingQuota(limit, total, checks)
              out   == decode_plain(pg.buffer, phys, pg.num_values, arr, quota.q, checks)
              whole == decode_plain(pg.buffer, phys, pg.num_values, <<>>, pg.num_values,
                                    checks)
          IN  /\ arr' = IF quota.panic = NoPanic THEN out.arr ELSE arr
              /\ IF quota.panic # NoPanic \/ out.panic # NoPanic
                 THEN /\ pc' = "panic"
                      /\ err' = IF quota.panic # NoPanic THEN quota.panic ELSE out.panic
                      /\ UNCHANGED <<total, calls, expected>>
                 ELSE /\ pc' = pc
                      /\ err' = err
                      /\ total' = total + out.count
                      /\ calls' = Append(calls, [pos |-> fetched + 1, before |-> total,
                                                 nv |-> pg.num_values, quota |-> quota.q,
                                                 count |-> out.count])
                      /\ expected' = [expected EXCEPT
                                         ![ci] = Take(@ \o whole.arr, limit)]
    /\ fetched' = fetched + 1
    /\ budget' = budget - 1
    /\ touched' = touched \cup {[pos |-> fetched + 1, before |-> total]}
    /\ UNCHANGED <<codecVars, writeVars, file, limit, col_descriptors, schema_arr, data_obj,
                   rg, ci, result, stop>>

\* Reflect::set(&data_obj, name, &arr)?; and the step of the two `for` loops
StoreColumn ==
    /\ pc = "store"
    /\ data_obj' = ObjSet(data_obj, col_descriptors[ci].name, arr)
    /\ LET nxt == NextPlace(rg, ci + 1)
       IN  pc' = nxt.pc /\ rg' = nxt.rg /\ ci' = nxt.ci
    /\ UNCHANGED <<codecVars, writeVars, file, limit, col_descriptors, schema_arr, arr,
                   total, err, result, fetched, touched, calls, stop, expected, budget>>

\* the result object { schema, data, numRows }; numRows is copied from the footer
Finish ==
    /\ pc = "result"
    /\ result' = [schema |-> schema_arr, data |-> data_obj]
    /\ pc' = "done"
    /\ UNCHANGED <<codecVars, writeVars, file, limit, col_descriptors, schema_arr, data_obj,
                   rg, ci, arr, total, err, fetched, touched, calls, stop, expected, budget>>

(***************************************************************************)
(* Codec specification: a value sequence is encoded, possibly cut to a     *)
(* prefix, and decoded under a quota; or an arbitrary buffer is decoded.   *)
(***************************************************************************)
I32Vals == {0, -1, 258, (-2147483647) - 1}

\* 0, -1, 2^53 + 1, 2^32 + 2 * 2^16 + 772, i64::MIN
I64Vals == {<<0, 0, 0, 0>>, <<65535, 65535, 65535, 65535>>, <<32, 0, 0, 1>>,
            <<0, 1, 2, 772>>, <<32768, 0, 0, 0>>}

\* 0.0, a negative normal number, the least subnormal, a NaN
F32Vals == {[s |-> 0, e |-> 0, m |-> 0], [s |-> 1, e |-> 128, m |-> 4194309],
            [s |-> 0, e |-> 0, m |-> 1], [s |-> 0, e |-> 255, m |-> 4194304]}

\* 0.0, a negative normal number, +infinity, a NaN
F64Vals == {[s |-> 0, e |-> 0, mh |-> 0, mm |-> 0, ml |-> 0],
            [s |-> 1, e |-> 1023, mh |-> 524289, mm |-> 2, ml |-> 772],
            [s |-> 0, e |-> 2047, mh |-> 0, mm |-> 0, ml |-> 0],
            [s |-> 0, e |-> 2047, mh |-> 524288, mm |-> 0, ml |-> 0]}

\* "", "a", "e-acute", and two byte strings that are not UTF-8
StrVals == {<<>>, <<97>>, <<195, 169>>, <<255>>, <<97, 192>>}

ValuesOf(ct) ==
    CASE ct = "Int32" -> SeqsUpTo(I32Vals, MaxLen)
      [] ct \in {"Int64", "TimestampMillis"} -> SeqsUpTo(I64Vals, MaxLen)
      [] ct = "Float32" -> SeqsUpTo(F32Vals, MaxLen)
      [] ct = "Float64" -> SeqsUpTo(F64Vals, MaxLen)
      [] ct = "Boolean" -> SeqsUpTo(BOOLEAN, MaxBools)
      [] ct = "Str" -> SeqsUpTo(StrVals, MaxLen)

RawBytes == {0, 1, 255}

RawPages ==
    {[kind |-> "data", num_values |-> n, buffer |-> b] :
        n \in 0 .. MaxRawVals, b \in SeqsUpTo(RawBytes, MaxRawLen)}

NoRes == [limit |-> 0, checks |-> FALSE,
          out |-> [arr |-> <<>>, count |-> 0, panic |-> NoPanic, hi |-> 0]]

NoPage == [kind |-> "data", num_values |-> 0, buffer |-> <<>>]

\* the page write_parquet builds for a column of type ct
EncodeColumn(ct, vals) ==
    CASE ct = "Int32" -> encode_i32(vals)
      [] ct \in {"Int64", "TimestampMillis"} -> encode_i64(vals)
      [] ct = "Float32" -> encode_f32(vals)
      [] ct = "Float64" -> encode_f64(vals)
      [] ct = "Boolean" -> encode_bool(vals)
      [] ct = "Str" -> encode_binary(vals)

CodecIdle ==
    /\ ctype = "Raw" /\ cphys = "Int96" /\ values = <<>> /\ page = NoPage
    /\ origin = "raw" /\ res = NoRes /\ cphase = "idle"

WriteIdle ==
    /\ schema_js = <<>> /\ col_names = <<>> /\ col_types = <<>> /\ parquet_fields = <<>>

NoFile == [schema |-> <<>>, row_groups |-> 0]

\* the reader's variables before read_parquet is entered with the row limit lim
ReadEntry(lim) ==
    /\ limit = lim
    /\ col_descriptors = <<>> /\ schema_arr = <<>> /\ data_obj = <<>>
    /\ rg = 1 /\ ci = 1 /\ arr = <<>> /\ total = 0
    /\ err = "none" /\ result = [schema |-> <<>>, data |-> <<>>]
    /\ fetched = 0 /\ touched = {} /\ calls = <<>> /\ stop = "running"
    /\ expected = <<>> /\ budget = MaxPages

CodecInit ==
    /\ WriteIdle /\ file = NoFile /\ pc = "idle" /\ ReadEntry(0)
    /\ res = NoRes
    /\ \/ /\ ctype \in ColType
          /\ cphys = physical_type(ctype)
          /\ values \in ValuesOf(ctype)
          /\ page = NoPage
          /\ origin = "encoded"
          /\ cphase = "input"
       \/ /\ ctype = "Raw"
          /\ cphys \in PhysicalType
          /\ values = <<>>
          /\ page \in RawPages
          /\ origin = "raw"
          /\ cphase = "ready"

Encode ==
    /\ cphase = "input"
    /\ page' = EncodeColumn(ctype, values)
    /\ cphase' = "ready"
    /\ UNCHANGED <<ctype, cphys, values, origin, res, writeVars, file, readVars>>

\* a page whose buffer was cut off after k bytes
Truncate ==
    /\ cphase = "ready"
    /\ origin = "encoded"
    /\ \E k \in 0 .. Len(page.buffer) - 1 :
          page' = [page EXCEPT !.buffer = SubSeq(page.buffer, 1, k)]
    /\ origin' = "cut"
    /\ UNCHANGED <<ctype, cphys, values, res, cphase, writeVars, file, readVars>>

Decode ==
    /\ cphase = "ready"
    /\ \E quota \in 0 .. page.num_values + 1, checks \in BOOLEAN :
          res' = [limit |-> quota, checks |-> checks,
                  out |-> decode_plain(page.buffer, cphys, page.num_values, <<>>,
                                       quota, checks)]
    /\ cphase' = "decoded"
    /\ UNCHANGED <<ctype, cphys, values, page, origin, writeVars, file, readVars>>

CodecNext == Encode \/ Truncate \/ Decode

CodecSpec == CodecInit /\ [][CodecNext]_vars

(***************************************************************************)
(* Type specification: write_parquet builds the file's schema from a host  *)
(* schema array and read_parquet labels the columns of that file.          *)
(***************************************************************************)
TypeInit ==
    /\ CodecIdle
    /\ schema_js \in SchemaInputs
    /\ col_names = <<>> /\ col_types = <<>> /\ parquet_fields = <<>>
    /\ file = NoFile
    /\ pc = "write"
    /\ ReadEntry(DefaultRows)

TypeNext == WriteSchemaColumn \/ WriteFile \/ ReadMetadata \/ BuildSchema

TypeSpec == TypeInit /\ [][TypeNext]_vars

(***************************************************************************)
(* Reader specification: read_parquet on a file of up to MaxCols columns,  *)
(* MaxRowGroups row groups and MaxPages pages, under a row limit.          *)
(***************************************************************************)
FileSchemas ==
    {[i \in 1 .. Len(ts) |-> [name |-> ColumnNames[i], physical_type |-> ts[i],
                              logical_type |-> NoLogical, converted_type |-> NoneT]] :
        ts \in SeqsUpTo(ReadTypes, MaxCols)}

MaxRowsInputs == {Undefined} \cup {Some(n) : n \in 0 .. MaxRows}

Init ==
    /\ CodecIdle
    /\ WriteIdle
    /\ file \in {[schema |-> sc, row_groups |-> n] : sc \in FileSchemas, n \in 0 .. MaxRowGroups}
    /\ pc = "start"
    /\ \E m \in MaxRowsInputs : ReadEntry(LimitOf(m))

Next ==
    \/ ReadMetadata
    \/ BuildSchema
    \/ StartData
    \/ OpenChunk
    \/ EndOfPages
    \/ BreakOnLimit
    \/ PageError
    \/ DecompError
    \/ DictPage
    \/ DataPageStep
    \/ StoreColumn
    \/ Finish

Spec == Init /\ [][Next]_vars

(***************************************************************************)
(* Properties of the codec (checked under CodecSpec).                      *)
(***************************************************************************)
\* the host value an input value stands for
JsView(ct, v) ==
    CASE ct = "Int32" -> v
      [] ct \in {"Int64", "TimestampMillis"} -> I64Exact(v)
      [] ct = "Float32" -> JsFromF64(F32AsF64(v))
      [] ct = "Float64" -> JsFromF64(v)
      [] ct = "Boolean" -> v
      [] ct = "Str" -> v

\* the value is no lossy-numeric edge case, and a Str value is text
Exact(ct, v) ==
    CASE ct \in {"Int64", "TimestampMillis"} -> I64AsF64(v) = I64Exact(v)
      [] ct = "Str" -> ValidUtf8(v)
      [] OTHER -> TRUE

AllExact(ct, vals) == \A i \in 1 .. Len(vals) : Exact(ct, vals[i])

\* the number of leading values of vals whose prefix and bytes fit in plen bytes
RECURSIVE WholeValues(_, _, _, _)
WholeValues(vals, plen, i, used) ==
    IF i > Len(vals) \/ used + 4 + Len(vals[i]) > plen THEN i - 1
    ELSE WholeValues(vals, plen, i + 1, used + 4 + Len(vals[i]))

CompleteRecords(ct, vals, plen) ==
    CASE ct \in {"Int32", "Float32"} -> Min(Len(vals), plen \div 4)
      [] ct \in {"Int64", "TimestampMillis", "Float64"} -> Min(Len(vals), plen \div 8)
      [] ct = "Boolean" -> Min(Len(vals), 8 * plen)
      [] ct = "Str" -> WholeValues(vals, plen, 1, 0)

\* the decode of the whole encoder output under the quota `limit`
WholeDecode(quota) ==
    decode_plain(EncodeColumn(ctype, values).buffer, cphys, Len(values), <<>>,
                 quota, res.checks)

\* C1: decoding the encoder's buffer with num_vals = limit = len(values) appends
\* exactly `values`, in order, and returns len(values), for every column type
\* and every value sequence without lossy-numeric values.
C1_RoundTrip ==
    (cphase = "decoded" /\ origin = "encoded" /\ res.limit = Len(values)
        /\ AllExact(ctype, values))
    => /\ page.num_values = Len(values)
       /\ res.out.panic = NoPanic
       /\ res.out.count = Len(values)
       /\ res.out.arr = [i \in 1 .. Len(values) |-> JsView(ctype, values[i])]

C1_Witness ==
    /\ cphase = "decoded" /\ origin = "encoded" /\ res.limit = Len(values)
    /\ ctype = "Int64" /\ values = <<<<0, 1, 2, 772>>, <<65535, 65535, 65535, 65535>>>>
    /\ res.out.count = 2

\* C2: decoding a prefix P (proper or not) of a valid buffer of n values with a
\* quota >= n never looks at a byte beyond P, returns the number of complete
\* records in P and appends exactly the first `count` values of the whole buffer.
C2_TruncationSafe ==
    (cphase = "decoded" /\ origin \in {"encoded", "cut"} /\ res.limit >= Len(values))
    => /\ res.out.panic = NoPanic
       /\ res.out.hi <= Len(page.buffer)
       /\ res.out.count = CompleteRecords(ctype, values, Len(page.buffer))
       /\ res.out.arr = Take(WholeDecode(Len(values)).arr, res.out.count)

C2_Witness ==
    /\ cphase = "decoded" /\ origin = "cut" /\ res.limit >= Len(values)
    /\ ctype = "Str" /\ Len(values) = 2 /\ Len(values[2]) = 2
    /\ Len(page.buffer) = Len(EncodeColumn(ctype, values).buffer) - 1
    /\ res.out.count = 1

\* C3: with a quota q below the declared count of a valid buffer the decoder
\* returns q, and its q values are the first q values of a decode of the same
\* buffer under any larger quota.
C3_Quota ==
    (cphase = "decoded" /\ origin = "encoded" /\ res.limit < page.num_values)
    => /\ res.out.count = res.limit
       /\ Len(res.out.arr) = res.limit
       /\ \A q2 \in res.limit + 1 .. page.num_values + 1 :
             Take(WholeDecode(q2).arr, res.limit) = res.out.arr

C3_Witness ==
    /\ cphase = "decoded" /\ origin = "encoded" /\ ctype = "Boolean"
    /\ page.num_values = 9 /\ res.limit = 8 /\ res.out.count = 8
    /\ values[9] /\ ~values[8]

\* C7: a ByteArray value that is not UTF-8 decodes to "<binary>" at its own
\* position and is counted; every complete value within the quota, before or
\* after it, is decoded at its position with its own content.
C7_TextFallback ==
    (cphase = "decoded" /\ ctype = "Str")
    => /\ res.out.panic = NoPanic
       /\ res.out.count = Min(res.limit, WholeValues(values, Len(page.buffer), 1, 0))
       /\ res.out.arr = [i \in 1 .. res.out.count |->
                            IF ValidUtf8(values[i]) THEN values[i] ELSE BinarySentinel]

C7_Witness ==
    /\ cphase = "decoded" /\ ctype = "Str" /\ origin = "encoded"
    /\ values = <<<<255>>, <<195, 169>>>>
    /\ res.out.arr = <<BinarySentinel, <<195, 169>>>>

\* C10: on any buffer, whatever its 4-byte length prefixes say, the ByteArray
\* decode stops with the current count; it never slices outside the buffer and
\* never aborts.
C10_ByteArrayNeverAborts ==
    (cphase = "decoded" /\ cphys = "ByteArray")
    => /\ res.out.panic = NoPanic
       /\ res.out.hi <= Len(page.buffer)

(***************************************************************************)
(* Properties of the type mapper (checked under TypeSpec).                 *)
(***************************************************************************)
CanonicalLabels == {"int32", "int64", "float32", "float64", "boolean", "timestamp", "string"}

\* the label the reader is to give a column the writer was handed type t for
ReadBack(t) ==
    IF ~t.some THEN "string"
    ELSE CASE t.v \in CanonicalLabels -> t.v
           [] t.v = "float" -> "float32"
           [] t.v = "double" -> "float64"
           [] t.v = "bool" -> "boolean"
           [] t.v = "timestamp_millis" -> "timestamp"
           [] OTHER -> "string"

\* C6: a canonical label reads back as itself, the synonyms float, double, bool
\* and timestamp_millis as float32, float64, boolean and timestamp, any other
\* string or a missing type as string; only TimestampMillis carries a logical
\* type and only TimestampMillis and Str carry a converted type.
C6_TypeLabels ==
    /\ \A i \in 1 .. Min(Len(schema_arr), Len(schema_js)) :
          /\ schema_arr[i].name = schema_js[i].name
          /\ schema_arr[i].type = ReadBack(schema_js[i].type)
    /\ \A i \in 1 .. Len(parquet_fields) :
          /\ (parquet_fields[i].logical_type # NoLogical) <=> (col_types[i] = "TimestampMillis")
          /\ (parquet_fields[i].converted_type # NoneT)
                <=> (col_types[i] \in {"TimestampMillis", "Str"})
          /\ col_types[i] = "TimestampMillis"
                => /\ parquet_fields[i].logical_type = TimestampMillisUtc
                   /\ parquet_fields[i].converted_type = "TimestampMillis"
          /\ col_types[i] = "Str" => parquet_fields[i].converted_type = "Utf8"

C6_Witness ==
    /\ Len(schema_js) = 2 /\ Len(schema_arr) = 2
    /\ schema_js[1].type = Some("timestamp_millis") /\ schema_arr[1].type = "timestamp"
    /\ schema_js[2].type = Undefined /\ schema_arr[2].type = "string"

(***************************************************************************)
(* Properties of read_parquet (checked under Spec).                        *)
(***************************************************************************)
\* C4: no page is decompressed or decoded once the quota of its column chunk
\* is used up, no failure of such a page is surfaced, and the page loop is
\* left early only then; otherwise it runs until the pages are exhausted.
C4_EarlyStop ==
    /\ \A t \in touched : t.before < limit
    /\ \A i \in 1 .. Len(calls) :
          calls[i].before + calls[i].count >= limit
             => \A t \in touched : t.pos <= calls[i].pos
    /\ (pc = "error" /\ err \in {"page", "decomp"}) => total < limit
    /\ pc = "store" => /\ stop \in {"break", "exhausted"}
                       /\ stop = "break" => total >= limit
                       /\ total < limit => stop = "exhausted"

\* pages of 1 and 2 values and a third page, under a quota of 2: one value from
\* the first page, one from the second, the third page fetched and left alone
C4_Witness ==
    /\ pc = "store" /\ stop = "break" /\ limit = 2 /\ fetched = 3
    /\ Len(calls) = 2
    /\ calls[1].nv = 1 /\ calls[1].count = 1
    /\ calls[2].nv = 2 /\ calls[2].quota = 1 /\ calls[2].count = 1
    /\ {t.pos : t \in touched} = {1, 2}

\* C5: the values returned for a column are the first min(limit, decodable
\* values of the column in the file) values of the column, in page order over
\* all its row groups.
C5_GlobalLimit ==
    pc = "done"
    => \A i \in 1 .. Len(col_descriptors) :
          ObjHas(result.data, col_descriptors[i].name)
             => ObjGet(result.data, col_descriptors[i].name) = expected[i]

\* C8: on success `data` has exactly one entry per column of `schema`, in
\* schema order.
C8_ResultShape ==
    pc = "done"
    => ObjKeys(result.data) = [i \in 1 .. Len(result.schema) |-> result.schema[i].name]

\* C9: while a column chunk is read, total is the length of the array and at
\* most limit; every decode_plain call gets the quota limit - total >= 1 and
\* returns at most min(declared count, quota), whatever the buffer; no array
\* of the result is longer than limit.
C9_RunningQuota ==
    pc \in {"pages", "store", "chunk", "result", "done", "error"}
    => /\ total = Len(arr)
       /\ total <= limit
       /\ \A i \in 1 .. Len(calls) :
             /\ calls[i].before <= limit
             /\ calls[i].quota = limit - calls[i].before
             /\ calls[i].quota >= 1
             /\ calls[i].count <= Min(calls[i].nv, calls[i].quota)
       /\ \A i \in 1 .. Len(data_obj) : Len(data_obj[i].val) <= limit
       /\ \A i \in 1 .. Len(result.data) : Len(result.data[i].val) <= limit

\* a damaged page returned fewer values than declared and than the quota, and a
\* later page used the quota up
C9_Witness ==
    /\ pc = "store" /\ Len(calls) = 2 /\ total = limit /\ limit = 2
    /\ calls[1].count < Min(calls[1].nv, calls[1].quota)
    /\ calls[2].quota = 1 /\ calls[2].count = 1 /\ calls[2].nv = 2

=============================================================================
